---- MODULE Spec2Model ----
(***************************************************************************)
(* Model of the echo client (src/src/client.c) and the echo server         *)
(* (src/src/server.c) together with the stream sockets that join them.     *)
(*                                                                         *)
(* One server process and NumClients client processes run main().  Every   *)
(* blocking socket call of either program is one action; the result the    *)
(* operating system hands back (a count, a short count, zero, a negative   *)
(* error) is drawn nondeterministically from what the call may return.     *)
(* Variables prefixed srv_ are locals of server.c main(), variables        *)
(* prefixed cli_ are locals of client.c main() (one copy per client        *)
(* process); the rest is the state of the sockets and history variables    *)
(* used to state the properties.                                           *)
(***************************************************************************)
EXTENDS Integers, Sequences, FiniteSets, TLC

\* ------------------------------------------------------------------ bounds
\* number of client processes that are started during a run
NumClients == 2
\* longest --message argument (strlen) a client is started with
MaxMsgLen == 3
\* capacity of the server's echo buffer.  server.c:115 sets 512; the model
\* scales the capacity down so that messages longer than the buffer, and
\* every way of splitting them, stay within reach of exhaustive search.
echo_buffer_len == 2

\* ------------------------------------------------------- program constants
\* third argument of start_server (server.c:82)
listen_backlog == 5

Clients == 1..NumClients
\* characters a --message argument is made of.  The client reads its message
\* only through strlen and printf, so one character value is enough.
MsgChar == {1}
\* content of an array element that has not been written yet
Indet == -1
\* the string terminator stored by client.c:140
NUL == 0
\* exit status still undetermined: main has not returned
Running == -1
\* the process was killed by a signal instead of returning from main
Killed == 139

Min(a, b) == IF a < b THEN a ELSE b

\* all sequences over S of length exactly n / at most n
SeqsOfLen(S, n) == [1..n -> S]
SeqsUpTo(S, n) == UNION {SeqsOfLen(S, k) : k \in 0..n}

Take(s, n) == SubSeq(s, 1, n)
Drop(s, n) == SubSeq(s, n + 1, Len(s))

\* memcpy of chunk into buf at offset 0 (what recv does with its buffer)
StoreAt0(buf, chunk) ==
    [i \in 1..Len(buf) |-> IF i <= Len(chunk) THEN chunk[i] ELSE buf[i]]

VARIABLES
    \* ---- server process (server.c main)
    srv_argc,            \* argc
    port_number,         \* port_number after argument parsing
    srv_pc,              \* position in main / start_server
    srv_ret,             \* ret
    srv_exit,            \* exit status of the process, Running while it runs
    lsock,               \* listening socket: none/created/bound/listening/closed
    lsock_closes,        \* number of close() calls made on the listening socket
    client_sockfd,       \* accepted socket being served (client id), 0 if none
    acc_open,            \* accepted sockets the server process holds open
    echo_buffer,         \* echo_buffer[echo_buffer_len]
    srv_chars_received,  \* chars_received of the echo loop
    srv_chars_sent,      \* chars_sent of the echo loop
    srv_fail,            \* history: which server socket call failed
    srv_accepted,        \* history: the clients accepted so far, in order
    srv_rx,              \* history: bytes read from each connection, in order
    srv_tx,              \* history: bytes written to each connection, in order
    \* ---- client processes (client.c main)
    message,             \* message (the --message argument)
    cli_pc,              \* position in main
    cli_exit,            \* exit status, Running while it runs
    cli_sock,            \* client socket: none/open/connected
    cli_chars_sent,      \* chars_sent
    total_received,      \* total_received
    cli_chars_received,  \* chars_received of the receive loop
    rx_buffer,           \* rx_buffer[rx_buffer_len + 1]
    cli_fail,            \* history: which step of the client failed
    cli_wire,            \* history: bytes the client wrote to its socket
    cli_reported,        \* history: bytes printed as the received response
    cli_recvs,           \* history: number of recv calls made
    \* ---- sockets
    backlog,             \* connections queued on the listening socket
    c2s,                 \* bytes in flight from each client to the server
    s2c                  \* bytes in flight from the server to each client

srv_vars == <<srv_argc, port_number, srv_pc, srv_ret, srv_exit, lsock,
              lsock_closes, client_sockfd, acc_open, echo_buffer,
              srv_chars_received, srv_chars_sent, srv_fail, srv_accepted,
              srv_rx, srv_tx>>
cli_vars == <<message, cli_pc, cli_exit, cli_sock, cli_chars_sent,
              total_received, cli_chars_received, rx_buffer, cli_fail, cli_wire, cli_reported,
              cli_recvs>>
net_vars == <<backlog, c2s, s2c>>
vars == <<srv_vars, cli_vars, net_vars>>

\* strlen(message), client.c:90
message_len(c) == Len(message[c])
\* rx_buffer_len, client.c:107
rx_buffer_len(c) == message_len(c)

\* the server process is running and its listening socket accepts connections
Listening == srv_exit = Running /\ lsock = "listening"
\* the client process still holds its end of the connection
ClientEndOpen(c) == cli_exit[c] = Running /\ cli_sock[c] = "connected"

\* command lines the server is started with: (argc, parsed port_number)
ServerArgs == {<<1, -1>>, <<2, -1>>, <<2, 0>>, <<2, 9000>>}

Init ==
    /\ \E a \in ServerArgs : srv_argc = a[1] /\ port_number = a[2]
    /\ srv_pc = "args"
    /\ srv_ret = 0
    /\ srv_exit = Running
    /\ lsock = "none"
    /\ lsock_closes = 0
    /\ client_sockfd = 0
    /\ acc_open = {}
    /\ echo_buffer = [i \in 1..echo_buffer_len |-> Indet]
    /\ srv_chars_received = 0
    /\ srv_chars_sent = 0
    /\ srv_fail = "none"
    /\ srv_accepted = <<>>
    /\ srv_rx = [c \in Clients |-> <<>>]
    /\ srv_tx = [c \in Clients |-> <<>>]
    /\ message \in [Clients -> SeqsUpTo(MsgChar, MaxMsgLen)]
    /\ cli_pc = [c \in Clients |-> "socket"]
    /\ cli_exit = [c \in Clients |-> Running]
    /\ cli_sock = [c \in Clients |-> "none"]
    /\ cli_chars_sent = [c \in Clients |-> 0]
    /\ total_received = [c \in Clients |-> 0]
    /\ cli_chars_received = [c \in Clients |-> 0]
    /\ rx_buffer = [c \in Clients |-> <<>>]
    /\ cli_fail = [c \in Clients |-> "none"]
    /\ cli_wire = [c \in Clients |-> <<>>]
    /\ cli_reported = [c \in Clients |-> <<>>]
    /\ cli_recvs = [c \in Clients |-> 0]
    /\ backlog = <<>>
    /\ c2s = [c \in Clients |-> <<>>]
    /\ s2c = [c \in Clients |-> <<>>]

\* ------------------------------------------------------------------ server

\* variant of SrvReturn: main returns 0 whatever status it was to return
SrvReturnZero(st) ==
    /\ srv_pc' = "done"
    /\ srv_exit' = 0
    /\ acc_open' = {}
    /\ backlog' = <<>>

\* main returns st: the process ends and the operating system releases the
\* descriptors it still holds (accepted sockets, queued connections)
SrvReturn(st) ==
    /\ srv_pc' = "done"
    /\ srv_exit' = st
    /\ acc_open' = {}
    /\ backlog' = <<>>

\* server.c:52-74, the argument checks
ArgsValid(argc, port) == argc >= 2 /\ port > 0

SrvArgs ==
    /\ srv_pc = "args"
    /\ IF ArgsValid(srv_argc, port_number)
         THEN /\ srv_pc' = "socket"
              /\ UNCHANGED <<srv_exit, acc_open, backlog>>
         ELSE SrvReturn(1)
    /\ UNCHANGED <<srv_argc, port_number, srv_ret, lsock, lsock_closes,
                   client_sockfd, echo_buffer, srv_chars_received,
                   srv_chars_sent, srv_fail, srv_accepted, srv_rx, srv_tx>>
    /\ UNCHANGED <<cli_vars, c2s, s2c>>

\* server.c:82-86: what main returns when start_server returned r
StartServerFailed(r) == 0 # r

\* start_server: socket(), server.c:186-191
SrvSocket ==
    /\ srv_pc = "socket"
    /\ \E fd \in {-1, 3} :
         IF fd < 0
           THEN /\ srv_fail' = "socket"
                /\ SrvReturn(1)
                /\ UNCHANGED lsock
           ELSE /\ lsock' = "created"
                /\ srv_pc' = "bind"
                /\ UNCHANGED <<srv_fail, srv_exit, acc_open, backlog>>
    /\ UNCHANGED <<srv_argc, port_number, srv_ret, lsock_closes,
                   client_sockfd, echo_buffer, srv_chars_received,
                   srv_chars_sent, srv_accepted, srv_rx, srv_tx>>
    /\ UNCHANGED <<cli_vars, c2s, s2c>>

\* start_server: bind(), server.c:202-206; on failure start_server returns
\* the negative ret through out: and main returns 1 (server.c:83-86)
SrvBind ==
    /\ srv_pc = "bind"
    /\ \E r \in {-1, 0} :
         IF r < 0
           THEN /\ srv_fail' = "bind"
                /\ StartServerFailed(r)
                /\ SrvReturn(1)
                /\ UNCHANGED lsock
           ELSE /\ lsock' = "bound"
                /\ srv_pc' = "listen"
                /\ UNCHANGED <<srv_fail, srv_exit, acc_open, backlog>>
    /\ UNCHANGED <<srv_argc, port_number, srv_ret, lsock_closes,
                   client_sockfd, echo_buffer, srv_chars_received,
                   srv_chars_sent, srv_accepted, srv_rx, srv_tx>>
    /\ UNCHANGED <<cli_vars, c2s, s2c>>

\* start_server: listen(), server.c:212-220, and the return to main
SrvListen ==
    /\ srv_pc = "listen"
    /\ \E r \in {-1, 0} :
         IF 0 # r
           THEN /\ srv_fail' = "listen"
                /\ StartServerFailed(r)
                /\ SrvReturn(1)
                /\ UNCHANGED lsock
           ELSE /\ lsock' = "listening"
                /\ srv_pc' = "accept"
                /\ UNCHANGED <<srv_fail, srv_exit, acc_open, backlog>>
    /\ UNCHANGED <<srv_argc, port_number, srv_ret, lsock_closes,
                   client_sockfd, echo_buffer, srv_chars_received,
                   srv_chars_sent, srv_accepted, srv_rx, srv_tx>>
    /\ UNCHANGED <<cli_vars, c2s, s2c>>

\* server.c:106-110: where main goes on accept's result
AfterAccept(fd) == IF fd < 0 THEN "cleanup" ELSE "recv"

\* accept(), server.c:104-113.  The call returns the oldest queued
\* connection, blocks while there is none, or fails.
SrvAccept ==
    /\ srv_pc = "accept"
    /\ \E fd \in {-1} \cup (IF backlog # <<>> THEN {Head(backlog)} ELSE {}) :
         /\ client_sockfd' = fd
         /\ srv_pc' = AfterAccept(fd)
         /\ srv_ret' = IF AfterAccept(fd) = "cleanup" THEN 1 ELSE srv_ret
         /\ IF fd < 0
              THEN /\ srv_fail' = "accept"
                   /\ UNCHANGED <<backlog, acc_open, srv_accepted>>
              ELSE /\ backlog' = Tail(backlog)
                   /\ acc_open' = acc_open \cup {fd}
                   /\ srv_accepted' = Append(srv_accepted, fd)
                   /\ UNCHANGED srv_fail
         \* chars_received and chars_sent are locals of the echo loop's body:
         \* those of the previous connection are gone
         /\ srv_chars_received' = 0
         /\ srv_chars_sent' = 0
    /\ UNCHANGED <<srv_argc, port_number, srv_exit, lsock, lsock_closes,
                   echo_buffer, srv_rx, srv_tx>>
    /\ UNCHANGED <<cli_vars, c2s, s2c>>

\* variant of AfterRecv: a zero-byte read is fatal like a negative one
AfterRecvEofFatal(n) ==
    IF n <= 0 THEN "cleanup" ELSE "send"

\* variant of AfterRecv: a failed recv is tried again on the same client
AfterRecvRetry(n) ==
    IF 0 = n THEN "accept" ELSE IF n < 0 THEN "recv" ELSE "send"

\* variant of AfterRecv: a zero-byte read is treated like data and goes on
\* to send
AfterRecvEofSend(n) ==
    IF n < 0 THEN "cleanup" ELSE "send"

\* variant of AfterRecv: after a zero-byte read the loop reads the same
\* connection again
AfterRecvEofRetry(n) ==
    IF n < 0 THEN "cleanup" ELSE IF 0 = n THEN "recv" ELSE "send"

\* server.c:120-130: where the echo loop goes on recv's result
AfterRecv(n) ==
    IF 0 = n THEN "accept" ELSE IF n < 0 THEN "cleanup" ELSE "send"

\* results recv(client_sockfd, echo_buffer, echo_buffer_len) may give: a
\* positive count of queued bytes, zero once the peer has closed and the
\* queue is drained, or a negative error
SrvRecvResults ==
    {-1} \cup
    (IF client_sockfd \in Clients
       THEN IF c2s[client_sockfd] # <<>>
              THEN 1..Min(echo_buffer_len, Len(c2s[client_sockfd]))
              ELSE IF ClientEndOpen(client_sockfd) THEN {} ELSE {0}
       ELSE {})

\* variant of RecvInto: the chunk is not stored, the buffer keeps what an
\* earlier read (of this or a previous connection) left in it
RecvIntoStale(buf, chunk) == buf

\* server.c:119: recv stores the chunk at the start of echo_buffer
RecvInto(buf, chunk) == StoreAt0(buf, chunk)

\* recv() of the echo loop, server.c:119-130
SrvRecv ==
    /\ srv_pc = "recv"
    /\ \E n \in SrvRecvResults :
         /\ srv_chars_received' = n
         /\ srv_pc' = AfterRecv(n)
         /\ srv_ret' = IF AfterRecv(n) = "cleanup" THEN 1 ELSE srv_ret
         /\ IF n > 0
              THEN /\ echo_buffer' =
                        RecvInto(echo_buffer, Take(c2s[client_sockfd], n))
                   /\ c2s' = [c2s EXCEPT ![client_sockfd] = Drop(@, n)]
                   /\ srv_rx' = [srv_rx EXCEPT ![client_sockfd] =
                                   @ \o Take(c2s[client_sockfd], n)]
                   /\ UNCHANGED srv_fail
              ELSE /\ srv_fail' = IF n < 0 THEN "recv" ELSE srv_fail
                   /\ UNCHANGED <<echo_buffer, c2s, srv_rx>>
    /\ UNCHANGED <<srv_argc, port_number, srv_exit, lsock, lsock_closes,
                   client_sockfd, acc_open, srv_chars_sent, srv_accepted,
                   srv_tx>>
    /\ UNCHANGED <<cli_vars, backlog, s2c>>

\* variant of AfterSend: after a successful send the server goes back to
\* accept instead of reading the same connection again
AfterSendAccept(sent, received) == IF sent < 0 THEN "cleanup" ELSE "accept"

\* server.c:134-138: where the echo loop goes on send's result
AfterSend(sent, received) == IF sent < 0 THEN "cleanup" ELSE "recv"

\* results send(client_sockfd, echo_buffer, chars_received) may give: the
\* whole count, a short count, or a negative error
SrvSendResults == {-1} \cup 1..srv_chars_received

\* send() of the echo loop, server.c:133-138.  Bytes written to a
\* connection whose client is gone are dropped by the network.
SrvSend ==
    /\ srv_pc = "send"
    /\ \E k \in SrvSendResults :
         /\ srv_chars_sent' = k
         /\ srv_pc' = AfterSend(k, srv_chars_received)
         /\ srv_ret' =
              IF AfterSend(k, srv_chars_received) = "cleanup" THEN 1 ELSE srv_ret
         /\ IF k > 0
              THEN /\ srv_tx' = [srv_tx EXCEPT ![client_sockfd] =
                                   @ \o Take(echo_buffer, k)]
                   /\ s2c' = IF ClientEndOpen(client_sockfd)
                               THEN [s2c EXCEPT ![client_sockfd] =
                                       @ \o Take(echo_buffer, k)]
                               ELSE s2c
                   /\ UNCHANGED srv_fail
              ELSE /\ srv_fail' = "send"
                   /\ UNCHANGED <<srv_tx, s2c>>
    /\ UNCHANGED <<srv_argc, port_number, srv_exit, lsock, lsock_closes,
                   client_sockfd, acc_open, echo_buffer, srv_chars_received,
                   srv_accepted, srv_rx>>
    /\ UNCHANGED <<cli_vars, backlog, c2s>>

\* stop_server, server.c:232-239: close() of the listening socket
stop_server ==
    /\ lsock' = "closed"
    /\ lsock_closes' = lsock_closes + 1

\* cleanup: stop_server(server_sockfd); return ret;  server.c:146-149
SrvCleanup ==
    /\ srv_pc = "cleanup"
    /\ stop_server
    /\ SrvReturn(srv_ret)
    /\ UNCHANGED <<srv_argc, port_number, srv_ret, client_sockfd,
                   echo_buffer, srv_chars_received, srv_chars_sent,
                   srv_fail, srv_accepted, srv_rx, srv_tx>>
    /\ UNCHANGED <<cli_vars, c2s, s2c>>

ServerStep ==
    \/ SrvArgs
    \/ SrvSocket
    \/ SrvBind
    \/ SrvListen
    \/ SrvAccept
    \/ SrvRecv
    \/ SrvSend
    \/ SrvCleanup

\* ------------------------------------------------------------------ client

\* main of client c returns st (why names the failed step, "none" if none):
\* the process ends, the operating system closes its socket and drops what
\* was still queued for it
CliReturn(c, st, why) ==
    /\ cli_pc' = [cli_pc EXCEPT ![c] = "done"]
    /\ cli_exit' = [cli_exit EXCEPT ![c] = st]
    /\ cli_fail' = [cli_fail EXCEPT ![c] = why]

\* socket(), client.c:58-62
CliSocket(c) ==
    /\ cli_pc[c] = "socket"
    /\ \E fd \in {-1, 3} :
         IF fd < 0
           THEN /\ CliReturn(c, 1, "socket")
                /\ UNCHANGED cli_sock
           ELSE /\ cli_sock' = [cli_sock EXCEPT ![c] = "open"]
                /\ cli_pc' = [cli_pc EXCEPT ![c] = "resolve"]
                /\ UNCHANGED <<cli_exit, cli_fail>>
    /\ UNCHANGED <<message, cli_chars_sent, total_received,
                   cli_chars_received, rx_buffer, cli_wire, cli_reported,
                   cli_recvs>>
    /\ UNCHANGED <<srv_vars, net_vars>>

\* gethostbyname(), client.c:65-69
CliResolve(c) ==
    /\ cli_pc[c] = "resolve"
    /\ \E found \in BOOLEAN :
         IF ~found
           THEN CliReturn(c, 1, "resolve")
           ELSE /\ cli_pc' = [cli_pc EXCEPT ![c] = "connect"]
                /\ UNCHANGED <<cli_exit, cli_fail>>
    /\ UNCHANGED <<message, cli_sock, cli_chars_sent, total_received,
                   cli_chars_received, rx_buffer, cli_wire, cli_reported,
                   cli_recvs>>
    /\ UNCHANGED <<srv_vars, net_vars>>

\* results connect() may give: 0 when a listening socket with room in its
\* queue is at the endpoint, a negative error otherwise or at any time
ConnectResults ==
    {-1} \cup (IF Listening /\ Len(backlog) < listen_backlog THEN {0} ELSE {})

\* connect(), client.c:82-86
CliConnect(c) ==
    /\ cli_pc[c] = "connect"
    /\ \E r \in ConnectResults :
         IF r < 0
           THEN /\ CliReturn(c, 1, "connect")
                /\ UNCHANGED <<cli_sock, backlog>>
           ELSE /\ cli_sock' = [cli_sock EXCEPT ![c] = "connected"]
                /\ backlog' = Append(backlog, c)
                /\ cli_pc' = [cli_pc EXCEPT ![c] = "send"]
                /\ UNCHANGED <<cli_exit, cli_fail>>
    /\ UNCHANGED <<message, cli_chars_sent, total_received,
                   cli_chars_received, rx_buffer, cli_wire, cli_reported,
                   cli_recvs>>
    /\ UNCHANGED <<srv_vars, c2s, s2c>>

\* what the stack holds at &message: the bytes of the pointer and of what
\* lies behind it.  Neither program ever looks at the value of a byte, so
\* one content that differs from every message text stands for all.
StackImage(len) == [i \in 1..len |-> IF i % 2 = 1 THEN 2 ELSE 1]

\* The buffer argument of send, client.c:91, is &message: the address of the
\* pointer variable, not the characters it points to.  send reads len bytes
\* from there: the representation of the pointer followed by whatever lies
\* behind it on the stack.  Those bytes may happen to be the same as the
\* message text, or be different from it.
SendBufferContents(msg, len) == {msg, StackImage(len)}

\* variant of SendCheck: only a negative result is an error
SendCheckNoShort(sent, len) ==
    IF sent < 0 THEN "send" ELSE "none"

\* client.c:92-103: the checks on send's result
SendCheck(sent, len) ==
    IF sent < 0 THEN "send" ELSE IF sent # len THEN "short_send" ELSE "none"

\* results send(sockfd, buf, len) may give
CliSendResults(len) == {-1} \cup (IF len = 0 THEN {0} ELSE 1..len)

\* send(), client.c:90-103, and the declarations of client.c:107-109
CliSend(c) ==
    /\ cli_pc[c] = "send"
    /\ \E buf \in SendBufferContents(message[c], message_len(c)),
          k \in CliSendResults(message_len(c)) :
         /\ cli_chars_sent' = [cli_chars_sent EXCEPT ![c] = k]
         /\ IF k > 0
              THEN /\ cli_wire' = [cli_wire EXCEPT ![c] = @ \o Take(buf, k)]
                   /\ c2s' = [c2s EXCEPT ![c] = @ \o Take(buf, k)]
              ELSE UNCHANGED <<cli_wire, c2s>>
         /\ IF SendCheck(k, message_len(c)) # "none"
              THEN /\ CliReturn(c, 1, SendCheck(k, message_len(c)))
                   /\ s2c' = [s2c EXCEPT ![c] = <<>>]
                   /\ UNCHANGED <<rx_buffer, total_received>>
              ELSE /\ cli_pc' = [cli_pc EXCEPT ![c] = "recv"]
                   /\ rx_buffer' = [rx_buffer EXCEPT ![c] =
                                      [i \in 1..(rx_buffer_len(c) + 1) |-> Indet]]
                   /\ total_received' = [total_received EXCEPT ![c] = 0]
                   /\ UNCHANGED <<cli_exit, cli_fail, s2c>>
    /\ UNCHANGED <<message, cli_sock, cli_chars_received, cli_reported,
                   cli_recvs>>
    /\ UNCHANGED <<srv_vars, backlog>>

\* variant of LoopCond: the loop is entered once more when the totals are
\* equal
LoopCondInclusive(c) == total_received[c] <= message_len(c)

\* client.c:110, the condition of the receive loop
LoopCond(c) == total_received[c] < message_len(c)

\* variant of chars_request: the size of the whole array, terminator
\* element included, is requested
chars_requestSizeof(c) == rx_buffer_len(c) + 1

\* chars_request, client.c:112-119
chars_request(c) ==
    LET chars_remaining == message_len(c) - total_received[c]
    IN  IF chars_remaining > rx_buffer_len(c)
          THEN rx_buffer_len(c) ELSE chars_remaining

\* variant of RecvCheck: only a negative result is an error, a short count
\* is added up and the loop asks for the rest
RecvCheckNoShort(received, request) ==
    IF received < 0 THEN "recv" ELSE "none"

\* client.c:123-132: the checks on recv's result
RecvCheck(received, request) ==
    IF received < 0 THEN "recv"
    ELSE IF received # request THEN "short_recv" ELSE "none"

\* results recv(sockfd, buf, request) may give: a positive count of queued
\* bytes, zero once the server process is gone and the queue is drained, or
\* a negative error
CliRecvResults(c, request) ==
    {-1} \cup
    (IF s2c[c] # <<>> THEN 1..Min(request, Len(s2c[c]))
     ELSE IF srv_exit # Running THEN {0} ELSE {})

\* the characters of the string held in buf: those before the first NUL
CStr(buf) ==
    LET nuls == {i \in 1..Len(buf) : buf[i] = NUL}
    IN  IF nuls = {} THEN buf
        ELSE Take(buf, (CHOOSE i \in nuls : \A j \in nuls : i <= j) - 1)

\* client.c:143 is printf("%s") with no argument for the conversion: the
\* behaviour is undefined.  What is printed is the string at whatever the
\* argument register holds: the receive buffer (the register recv left
\* behind), or some other text (here: an empty string).
PrintfMissingArg(buf) == {CStr(buf), <<>>}

\* variant of CliRecvInto: the chunk is stored one element further on than
\* the bytes counted so far
CliRecvIntoShifted(buf, chunk, total) ==
    [i \in 1..Len(buf) |->
        IF total + 2 <= i /\ i <= total + Len(chunk) + 1
          THEN chunk[i - total - 1] ELSE buf[i]]

\* client.c:122: the buffer argument of recv is &rx_buffer, the start of
\* the array, whatever total_received (total) is
CliRecvInto(buf, chunk, total) == StoreAt0(buf, chunk)

\* one iteration of the receive loop, client.c:110-144
CliRecv(c) ==
    /\ cli_pc[c] = "recv"
    /\ LoopCond(c)
    /\ \E r \in CliRecvResults(c, chars_request(c)) :
         LET stored == IF r > 0
                         THEN CliRecvInto(rx_buffer[c], Take(s2c[c], r),
                                          total_received[c])
                         ELSE rx_buffer[c]
             ended == [stored EXCEPT ![rx_buffer_len(c) + 1] = NUL]
         IN  /\ cli_recvs' = [cli_recvs EXCEPT ![c] = Min(@ + 1, MaxMsgLen + 1)]
             /\ cli_chars_received' = [cli_chars_received EXCEPT ![c] = r]
             /\ IF RecvCheck(r, chars_request(c)) # "none"
                  THEN /\ CliReturn(c, 1, RecvCheck(r, chars_request(c)))
                       /\ rx_buffer' = [rx_buffer EXCEPT ![c] = stored]
                       /\ s2c' = [s2c EXCEPT ![c] = <<>>]
                       /\ UNCHANGED <<total_received, cli_reported>>
                  ELSE /\ total_received' =
                            [total_received EXCEPT ![c] = @ + r]
                       /\ rx_buffer' = [rx_buffer EXCEPT ![c] = ended]
                       /\ \E crash \in BOOLEAN, out \in PrintfMissingArg(ended) :
                            IF crash
                              THEN /\ CliReturn(c, Killed, "none")
                                   /\ s2c' = [s2c EXCEPT ![c] = <<>>]
                                   /\ UNCHANGED cli_reported
                              ELSE /\ cli_reported' =
                                        [cli_reported EXCEPT ![c] = @ \o out]
                                   /\ s2c' = [s2c EXCEPT ![c] =
                                                IF r > 0 THEN Drop(@, r) ELSE @]
                                   /\ UNCHANGED <<cli_pc, cli_exit, cli_fail>>
    /\ UNCHANGED <<message, cli_sock, cli_chars_sent, cli_wire>>
    /\ UNCHANGED <<srv_vars, backlog, c2s>>

\* the receive loop ends: printf("\"\n"); return 0;  client.c:145-147
CliFinish(c) ==
    /\ cli_pc[c] = "recv"
    /\ ~LoopCond(c)
    /\ CliReturn(c, 0, "none")
    /\ s2c' = [s2c EXCEPT ![c] = <<>>]
    /\ UNCHANGED <<message, cli_sock, cli_chars_sent, total_received,
                   cli_chars_received, rx_buffer, cli_wire, cli_reported,
                   cli_recvs>>
    /\ UNCHANGED <<srv_vars, backlog, c2s>>

ClientStep(c) ==
    \/ CliSocket(c)
    \/ CliResolve(c)
    \/ CliConnect(c)
    \/ CliSend(c)
    \/ CliRecv(c)
    \/ CliFinish(c)

Next ==
    \/ ServerStep
    \/ \E c \in Clients : ClientStep(c)

Spec == Init /\ [][Next]_vars

\* ---------------------------------------------------------------- fairness
\* A step of the server in which the call it is in returns without an
\* error.  Such a step is possible exactly when the call does not block:
\* accept with a connection queued, recv with bytes queued or the peer
\* gone, send, and the steps that make no blocking call.
SrvCompletes == ServerStep /\ srv_fail' = srv_fail

\* A step of client c in which the call it is in returns without an error
\* (a short count is not an error of the call).
CliCompletes(c) ==
    /\ ClientStep(c)
    /\ cli_fail'[c] \notin {"socket", "resolve", "connect", "send", "recv"}

\* The server and the clients are processes of their own, each with a
\* single thread: the operating system runs a process whose call can
\* return, so none of them waits for ever on a call that can complete.
\* Calls that block (accept on an empty queue, recv on an idle connection)
\* are not forced to return, and no call is forced to fail.
FairSpec ==
    /\ Spec
    /\ WF_vars(SrvCompletes)
    /\ \A c \in Clients : WF_vars(CliCompletes(c))

\* ------------------------------------------------------------ properties

\* the bytes client c holds as received: rx_buffer[0 .. message_len)
Held(c) == Take(rx_buffer[c], message_len(c))

\* C1: whenever a client has exited with status 0, the bytes it holds as
\* received and the bytes it printed as the response both equal the bytes
\* it wrote to the socket, in the same order.
C1_RoundTripReported ==
    \A c \in Clients :
        cli_exit[c] = 0 =>
            /\ Held(c) = cli_wire[c]
            /\ cli_reported[c] = cli_wire[c]

\* C2: the bytes a client hands to send are the first chars_sent characters
\* of its message argument, and a client that exits 0 holds the message text
\* as its received bytes.
C2_PayloadIsMessage ==
    \A c \in Clients :
        /\ cli_chars_sent[c] > 0 =>
               cli_wire[c] = Take(message[c], cli_chars_sent[c])
        /\ cli_exit[c] = 0 => Held(c) = message[c]

\* C3: the echo loop never goes on to its next recv after a send whose
\* count differs from the count recv had returned.
C3_ShortSendFatal ==
    srv_pc = "recv" => srv_chars_sent = srv_chars_received

\* C4: the server holds at most one open accepted socket at any time, and
\* none while it waits in accept.
C4_AcceptedSocketClosed ==
    /\ Cardinality(acc_open) <= 1
    /\ srv_pc = "accept" => acc_open = {}

\* C5: a client exits 0 only after connect succeeded, send returned exactly
\* message_len and message_len bytes were received in total; a failed
\* socket, resolution, connect, send or recv call, a short send and a short
\* recv each end the client at once with status 1, and a client that has
\* exited transfers nothing more.
C5_ClientExitStatus ==
    /\ [](\A c \in Clients :
            cli_exit[c] = 0 =>
                /\ cli_sock[c] = "connected"
                /\ cli_chars_sent[c] = message_len(c)
                /\ total_received[c] = message_len(c))
    /\ [][\A c \in Clients :
            /\ ( \/ cli_fail'[c] # "none"
                 \/ /\ cli_pc[c] = "connect" /\ cli_pc'[c] # "connect"
                    /\ cli_sock'[c] # "connected"
                 \/ /\ cli_pc[c] = "send" /\ cli_pc'[c] # "send"
                    /\ cli_chars_sent'[c] # message_len(c)
                 \/ /\ cli_pc[c] = "recv" /\ LoopCond(c)
                    /\ cli_recvs'[c] # cli_recvs[c]
                    /\ cli_chars_received'[c] # chars_request(c) )
               => (cli_pc'[c] = "done" /\ cli_exit'[c] = 1)
            /\ cli_pc[c] = "done" =>
                 /\ cli_pc'[c] = "done"
                 /\ cli_exit'[c] = cli_exit[c]
                 /\ cli_wire'[c] = cli_wire[c]
                 /\ cli_recvs'[c] = cli_recvs[c]
         ]_vars

\* C5 witness: one client has exited 0 with a non-empty message while the
\* other was ended by a short receive.
C5_Witness ==
    \E c, d \in Clients :
        /\ cli_exit[c] = 0 /\ message_len(c) > 0
        /\ cli_fail[d] = "short_recv" /\ cli_exit[d] = 1

\* C6: for a message longer than the echo buffer that its client has sent
\* in full, each time the echo loop is about to read again the bytes
\* written back on the connection so far equal the bytes read from it so
\* far, and once the whole message has been read and the loop has ended
\* the bytes written back are the N bytes sent.
C6_FullEcho ==
    \A c \in Clients :
        ( /\ message_len(c) > echo_buffer_len
          /\ cli_chars_sent[c] = message_len(c)
          /\ client_sockfd = c ) =>
            /\ srv_pc = "recv" => srv_tx[c] = srv_rx[c]
            /\ (srv_pc = "accept" /\ srv_rx[c] = cli_wire[c])
                 => (srv_tx[c] = cli_wire[c] /\ Len(srv_tx[c]) = message_len(c))

\* client c connected, sent at least one byte and is gone without ever
\* having called recv
Abandoned(c) ==
    /\ cli_exit[c] # Running
    /\ cli_sock[c] = "connected"
    /\ cli_wire[c] # <<>>
    /\ cli_recvs[c] = 0

\* client d was accepted after client c
AcceptedAfter(c, d) ==
    \E i, j \in 1..Len(srv_accepted) :
        i < j /\ srv_accepted[i] = c /\ srv_accepted[j] = d

\* C7: a client that sends some bytes and goes away without reading does
\* not end the server: the server ends only when one of its own socket
\* calls fails; the recv that finds the abandoned connection drained and
\* reports no error returns zero and takes the server back to accept, still
\* listening; and a client accepted afterwards that completes holds a
\* correct echo of what it sent.
C7_AbandonedClient ==
    /\ [](srv_exit # Running =>
            (srv_fail # "none" \/ ~ArgsValid(srv_argc, port_number)))
    /\ [][\A c \in Clients :
            ( /\ srv_pc = "recv" /\ client_sockfd = c
              /\ Abandoned(c) /\ c2s[c] = <<>>
              /\ srv_pc' # "recv" /\ srv_chars_received' >= 0 )
            => ( /\ srv_chars_received' = 0
                 /\ srv_pc' = "accept"
                 /\ srv_exit' = Running
                 /\ srv_ret' = 0
                 /\ lsock' = "listening" )
         ]_vars
    /\ [](\A c, d \in Clients :
            (Abandoned(c) /\ AcceptedAfter(c, d) /\ cli_exit[d] = 0) =>
                (Held(d) = cli_wire[d] /\ Len(cli_wire[d]) = message_len(d)))

\* C7 witness: the first accepted client abandoned its connection, the
\* server is still running and the client accepted after it has completed
\* with a correct, non-empty echo.
C7_Witness ==
    \E c, d \in Clients :
        /\ Abandoned(c) /\ srv_accepted = <<c, d>>
        /\ srv_exit = Running
        /\ cli_exit[d] = 0 /\ message_len(d) > 0
        /\ Held(d) = cli_wire[d]

\* the chunk the latest recv of the echo loop read from connection c
LastRead(c) ==
    SubSeq(srv_rx[c], Len(srv_rx[c]) - srv_chars_received + 1, Len(srv_rx[c]))

\* C8: whatever the server writes to a connection is written to the
\* connection it is serving and is a leading part of the chunk it has just
\* read from that same connection, never content of another connection; and
\* two clients that sent the same bytes and completed hold the same, correct
\* echo.
C8_NoLeakBetweenConnections ==
    /\ [][\A c \in Clients :
            srv_tx'[c] # srv_tx[c] =>
                /\ c = client_sockfd
                /\ \E k \in 1..srv_chars_received :
                     /\ srv_tx'[c] = srv_tx[c] \o Take(LastRead(c), k)
                     /\ ClientEndOpen(c) =>
                          s2c'[c] = s2c[c] \o Take(LastRead(c), k)
         ]_vars
    /\ [](\A c, d \in Clients :
            (cli_exit[c] = 0 /\ cli_exit[d] = 0 /\ cli_wire[c] = cli_wire[d])
                => (Held(c) = Held(d) /\ Held(c) = cli_wire[c]))

\* C8 witness: two connections were served one after the other, both
\* clients sent the same non-empty bytes and both completed.
C8_Witness ==
    \E c, d \in Clients :
        /\ srv_accepted = <<c, d>>
        /\ cli_exit[c] = 0 /\ cli_exit[d] = 0
        /\ cli_wire[c] = cli_wire[d] /\ cli_wire[c] # <<>>
        /\ srv_tx[c] = cli_wire[c] /\ srv_tx[d] = cli_wire[d]

\* C9: when the server process has returned from main after its listening
\* socket was created, that socket has been closed exactly once.
C9_ListeningSocketClosedOnce ==
    (srv_exit # Running /\ lsock # "none") => lsock_closes = 1

\* C10: after a failed accept or a failed recv the server is on its way
\* out with ret = 1 and ends with exit status 1, and it accepts, reads and
\* writes nothing more.
C10_AcceptRecvFatal ==
    /\ [](srv_fail \in {"accept", "recv"} =>
            /\ srv_pc \in {"cleanup", "done"}
            /\ srv_ret = 1
            /\ srv_pc = "done" => srv_exit = 1)
    /\ [][(srv_fail = "accept" \/ srv_fail = "recv") =>
            /\ srv_fail' = srv_fail
            /\ srv_accepted' = srv_accepted
            /\ srv_rx' = srv_rx
            /\ srv_tx' = srv_tx
         ]_vars

\* C10 witness: the server ended with status 1 on a failed recv after it
\* had echoed bytes, while another connected client was still waiting to be
\* accepted.
C10_Witness ==
    /\ srv_fail = "recv" /\ srv_exit = 1
    /\ \E c, d \in Clients :
         /\ srv_tx[c] # <<>>
         /\ srv_accepted = <<c>>
         /\ cli_sock[d] = "connected" /\ cli_exit[d] = Running

\* the connection accepted last, 0 while none has been accepted
LastAccepted ==
    IF srv_accepted = <<>> THEN 0 ELSE srv_accepted[Len(srv_accepted)]

\* client c is on the list of accepted connections
Accepted(c) == \E i \in 1..Len(srv_accepted) : srv_accepted[i] = c

\* C11: the server serves one client at a time.  It calls accept only from
\* its accept position, never while the client accepted last still holds
\* its end open; it reads and writes only the connection accepted last; and
\* while an accepted client still holds its connection open, no client that
\* is not yet accepted, or was accepted later, has been sent or has queued
\* for it a single echoed byte.
C11_OneClientAtATime ==
    /\ [][( \/ srv_accepted' # srv_accepted
              \/ (srv_fail # "accept" /\ srv_fail' = "accept") ) =>
            /\ srv_pc = "accept"
            /\ LastAccepted # 0 =>
                 (~ClientEndOpen(LastAccepted) /\ srv_chars_received = 0)
         ]_vars
    /\ [][\A c \in Clients :
            (srv_rx'[c] # srv_rx[c] \/ srv_tx'[c] # srv_tx[c]) =>
                (c = LastAccepted /\ c = client_sockfd)
         ]_vars
    /\ [](\A c, d \in Clients :
            ( /\ c # d
              /\ Accepted(c) /\ ClientEndOpen(c)
              /\ (~Accepted(d) \/ AcceptedAfter(c, d)) )
            => (srv_rx[d] = <<>> /\ srv_tx[d] = <<>> /\ s2c[d] = <<>>))
    /\ [](\A i, j \in 1..Len(srv_accepted) :
            i < j => /\ srv_accepted[i] # srv_accepted[j]
                     /\ ~ClientEndOpen(srv_accepted[i]))

\* C11 witness: the first client has been echoed some bytes and still holds
\* its connection open without having read, while a second client has
\* connected and sent its message, which waits unread with no echo.
C11_Witness ==
    \E c, d \in Clients :
        /\ srv_accepted = <<c>> /\ ClientEndOpen(c)
        /\ srv_tx[c] # <<>> /\ cli_recvs[c] = 0
        /\ srv_pc = "recv" /\ c2s[c] = <<>>
        /\ d # c /\ ClientEndOpen(d) /\ backlog = <<d>>
        /\ c2s[d] # <<>> /\ srv_tx[d] = <<>>

\* C12: a client with an empty message whose connect succeeded and whose
\* send returned 0 makes no recv call: it has counted nothing as received,
\* its only step from there is to exit, and it exits with status 0.
C12_EmptyMessage ==
    /\ [](\A c \in Clients :
            ( /\ message_len(c) = 0
              /\ cli_sock[c] = "connected"
              /\ cli_pc[c] \in {"recv", "done"}
              /\ cli_fail[c] = "none" ) =>
                /\ cli_chars_sent[c] = 0
                /\ cli_recvs[c] = 0
                /\ total_received[c] = 0
                /\ total_received[c] = message_len(c)
                /\ cli_pc[c] = "done" => cli_exit[c] = 0)
    /\ [][\A c \in Clients :
            ( /\ message_len(c) = 0
              /\ cli_pc[c] = "recv"
              /\ <<cli_pc[c], cli_recvs[c], total_received[c]>>' #
                     <<cli_pc[c], cli_recvs[c], total_received[c]>> ) =>
                /\ cli_pc'[c] = "done" /\ cli_exit'[c] = 0
                /\ cli_recvs'[c] = 0 /\ total_received'[c] = 0
         ]_vars

\* C12 witness: a client with an empty message has exited with status 0
\* after the server accepted its connection.
C12_Witness ==
    \E c \in Clients :
        /\ message_len(c) = 0 /\ cli_sock[c] = "connected"
        /\ cli_exit[c] = 0 /\ cli_recvs[c] = 0
        /\ Accepted(c)

\* C13: a client process that has ended after its socket was created has
\* closed that socket.  (cli_sock is put in a state by the socket call that
\* the program makes; the value "closed" stands for a close() of sockfd.)
C13_ClientSocketClosed ==
    \A c \in Clients :
        (cli_exit[c] # Running /\ cli_sock[c] # "none") =>
            cli_sock[c] = "closed"

\* C14: within a connection every non-empty recv is answered by one send of
\* exactly the bytes read before anything else is read or accepted, and
\* nothing is sent without such a recv.  While a send is due the bytes read
\* from the connection are the bytes written back so far followed by the
\* chunk just read, which is what the start of the echo buffer holds; at
\* every other time, unless the send on it failed, the bytes written back
\* on a connection are exactly the bytes read from it.
C14_StrictAlternation ==
    /\ srv_pc = "send" =>
         /\ client_sockfd \in Clients
         /\ srv_chars_received > 0
         /\ Take(echo_buffer, srv_chars_received) = LastRead(client_sockfd)
         /\ srv_rx[client_sockfd] =
                srv_tx[client_sockfd] \o LastRead(client_sockfd)
    /\ \A c \in Clients :
         ~(client_sockfd = c /\ (srv_pc = "send" \/ srv_fail = "send")) =>
             srv_tx[c] = srv_rx[c]

\* the echo loop of connection c has been left without an error: the
\* server is back at accept or has gone on to a later connection
LoopEnded(c) ==
    /\ Accepted(c)
    /\ \/ c # LastAccepted
       \/ srv_pc = "accept"
       \/ srv_fail = "accept"

\* C15: a recv on the accepted connection that returns zero ends the echo
\* loop normally: the step takes the server to accept with nothing written,
\* no error recorded, ret still 0, the process running and the listening
\* socket open and never closed; nothing is read from or written to that
\* connection afterwards; and the server's next step from there is the
\* accept call.
C15_ZeroReadEndsLoop ==
    /\ [][(srv_pc = "recv" /\ srv_pc' # "recv" /\ srv_chars_received' = 0) =>
            /\ srv_pc' = "accept"
            /\ srv_exit' = Running
            /\ srv_ret' = 0
            /\ srv_fail' = "none"
            /\ lsock' = "listening" /\ lsock_closes' = 0
            /\ srv_tx' = srv_tx
            /\ LoopEnded(client_sockfd)'
         ]_vars
    /\ [][\A c \in Clients :
            LoopEnded(c) =>
                (srv_tx'[c] = srv_tx[c] /\ srv_rx'[c] = srv_rx[c])
         ]_vars
    /\ [][(srv_pc = "accept" /\ srv_vars' # srv_vars) =>
            \/ srv_accepted' # srv_accepted
            \/ srv_fail' = "accept"
         ]_vars
    /\ [](srv_pc = "accept" => (lsock = "listening" /\ srv_exit = Running))

\* C15 witness: the server read zero bytes from the connection of a client
\* that had completed, and is back at accept, listening, with the next
\* client waiting in the queue.
C15_Witness ==
    \E c, d \in Clients :
        /\ srv_accepted = <<c>> /\ srv_pc = "accept"
        /\ srv_chars_received = 0
        /\ cli_exit[c] = 0 /\ srv_tx[c] # <<>>
        /\ lsock = "listening" /\ srv_exit = Running
        /\ backlog = <<d>>

\* C16: a recv of the client that returns bytes leaves the first
\* total_received elements of rx_buffer as they were and stores the bytes,
\* in the order they arrived, in the elements that follow; and when
\* total_received has reached message_len the buffer holds the first
\* message_len bytes the server wrote to the connection, in that order.
C16_ReceiveAccumulates ==
    /\ [][\A c \in Clients :
            (cli_recvs'[c] # cli_recvs[c] /\ cli_chars_received'[c] > 0) =>
                \A i \in 1..rx_buffer_len(c) :
                    /\ i <= total_received[c] =>
                         rx_buffer'[c][i] = rx_buffer[c][i]
                    /\ ( /\ total_received[c] < i
                         /\ i <= total_received[c] + cli_chars_received'[c] )
                         => rx_buffer'[c][i] = s2c[c][i - total_received[c]]
         ]_vars
    /\ [](\A c \in Clients :
            ( /\ cli_pc[c] \in {"recv", "done"}
              /\ cli_recvs[c] > 0
              /\ total_received[c] = message_len(c) ) =>
                Held(c) = Take(srv_tx[c], message_len(c)))

\* C16 witness: a client whose message is of the greatest length, and whose
\* bytes on the wire differ from one another, has received all of them; the
\* server had written them back in more than one piece.
C16_Witness ==
    \E c \in Clients :
        /\ message_len(c) = MaxMsgLen
        /\ total_received[c] = MaxMsgLen
        /\ cli_recvs[c] = 1
        /\ Held(c) = StackImage(MaxMsgLen)
        /\ srv_tx[c] = StackImage(MaxMsgLen)

\* client c has got as far as its receive loop
InReceiveLoop(c) ==
    /\ cli_pc[c] \in {"recv", "done"}
    /\ cli_sock[c] = "connected"
    /\ cli_fail[c] \notin {"send", "short_send"}

\* C17: in the receive loop total_received lies between 0 and message_len
\* and never exceeds the number of bytes sent; the count a recv call is
\* about to ask for is the smaller of the bytes still missing and the
\* capacity of the receive buffer, is at least 1, fits the buffer and is no
\* more than the bytes sent; and a recv call returns no more than was asked
\* for and adds to total_received either nothing or what it returned.
C17_RequestBounds ==
    /\ [](\A c \in Clients :
            InReceiveLoop(c) =>
                /\ 0 <= total_received[c]
                /\ total_received[c] <= message_len(c)
                /\ total_received[c] <= cli_chars_sent[c]
                /\ (cli_pc[c] = "recv" /\ LoopCond(c)) =>
                     /\ chars_request(c) =
                            Min(message_len(c) - total_received[c],
                                rx_buffer_len(c))
                     /\ chars_request(c) >= 1
                     /\ chars_request(c) < Len(rx_buffer[c])
                     /\ total_received[c] + chars_request(c)
                            <= cli_chars_sent[c])
    /\ [][\A c \in Clients :
            cli_recvs'[c] # cli_recvs[c] =>
                /\ cli_pc[c] = "recv" /\ LoopCond(c)
                /\ cli_chars_received'[c] <= chars_request(c)
                /\ \/ total_received'[c] = total_received[c]
                   \/ total_received'[c] =
                          total_received[c] + cli_chars_received'[c]
         ]_vars

\* C17 witness: one client of the greatest message length has counted all
\* its bytes as received, another is about to ask for all of its own.
C17_Witness ==
    \E c, d \in Clients :
        /\ message_len(c) = MaxMsgLen /\ cli_recvs[c] = 1
        /\ total_received[c] = MaxMsgLen /\ cli_pc[c] = "recv"
        /\ d # c /\ cli_pc[d] = "recv" /\ LoopCond(d)
        /\ chars_request(d) = message_len(d) /\ message_len(d) > 1

\* C18: the receive loop of a client runs at most once.  total_received
\* changes only from 0 to message_len; a client with a non-empty message
\* that exits 0 made exactly one recv call and that call returned all
\* message_len bytes; and a recv call that returns only a part of the echo
\* ends the client with status 1.
C18_SingleRecv ==
    /\ [](\A c \in Clients :
            /\ cli_recvs[c] <= 1
            /\ (cli_exit[c] = 0 /\ message_len(c) > 0) =>
                 /\ cli_recvs[c] = 1
                 /\ cli_chars_received[c] = message_len(c))
    /\ [][\A c \in Clients :
            /\ total_received'[c] # total_received[c] =>
                 /\ total_received[c] = 0
                 /\ total_received'[c] = message_len(c)
                 /\ cli_chars_received'[c] = message_len(c)
            /\ ( /\ cli_recvs'[c] # cli_recvs[c]
                 /\ cli_chars_received'[c] < message_len(c) ) =>
                 /\ cli_pc'[c] = "done" /\ cli_exit'[c] = 1
                 /\ total_received'[c] = 0
         ]_vars

\* C18 witness: two clients sent messages longer than the echo buffer, so
\* that the server wrote each echo in more than one piece.  One client got
\* all of it from a single recv and exited 0; the other got a first piece
\* from its recv and exited 1.
C18_Witness ==
    \E c, d \in Clients :
        /\ message_len(c) > echo_buffer_len
        /\ message_len(d) > echo_buffer_len
        /\ Len(srv_tx[c]) = message_len(c)
        /\ cli_exit[c] = 0 /\ cli_recvs[c] = 1
        /\ cli_fail[d] = "short_recv" /\ cli_exit[d] = 1
        /\ cli_chars_received[d] = echo_buffer_len

\* C19: the server process never returns 0: whenever main has returned its
\* exit status is 1 and the cause is a rejected command line or a failed
\* socket call, and whenever the cleanup label has been reached ret is 1.
C19_ServerNeverExitsZero ==
    /\ srv_exit # 0
    /\ srv_exit # Running =>
         /\ srv_pc = "done"
         /\ srv_exit = 1
         /\ \/ ~ArgsValid(srv_argc, port_number)
            \/ srv_fail \in {"socket", "bind", "listen",
                             "accept", "recv", "send"}
    /\ srv_pc = "cleanup" => (srv_ret = 1 /\ srv_fail # "none")

\* C19 witness: the server has returned 1 through cleanup after a failed
\* send, having served a connection to its end before.
C19_Witness ==
    /\ srv_exit = 1 /\ srv_fail = "send" /\ srv_ret = 1
    /\ lsock = "closed"
    /\ Len(srv_accepted) = 2

\* the echo loop is running on connection c
InEchoLoop(c) == client_sockfd = c /\ srv_pc \in {"recv", "send"}

\* C20: the echo loop runs until the connection is closed or a call fails,
\* and no longer.  Once the client of the connection being served has
\* closed its end, the server eventually is back at accept with that
\* connection as the last accepted, unless a socket call of the server
\* fails; and a step that leaves the echo loop is either the zero-byte read
\* of a drained connection whose client is gone, which leads to accept, or
\* a failed call, which leads to cleanup: while the client holds its end
\* open and no call has failed the loop is not left and accept is not
\* called.
C20_EchoLoopRuns ==
    /\ \A c \in Clients :
         (InEchoLoop(c) /\ ~ClientEndOpen(c)) ~>
             ( \/ (srv_pc = "accept" /\ LastAccepted = c)
               \/ srv_fail # "none" )
    /\ [][\A c \in Clients :
            (InEchoLoop(c) /\ ~InEchoLoop(c)') =>
                \/ /\ srv_pc' = "accept"
                   /\ srv_chars_received' = 0
                   /\ srv_fail' = "none"
                   /\ ~ClientEndOpen(c) /\ c2s[c] = <<>>
                \/ /\ srv_pc' = "cleanup"
                   /\ srv_fail' \in {"recv", "send"}
         ]_vars
    /\ [](\A c \in Clients :
            (Accepted(c) /\ ClientEndOpen(c) /\ srv_fail = "none") =>
                (c = LastAccepted /\ InEchoLoop(c)))

\* C20 witness: the server is back at accept after it echoed a message
\* longer than its buffer, in full, to a client that has closed its end.
C20_Witness ==
    \E c \in Clients :
        /\ srv_pc = "accept" /\ LastAccepted = c
        /\ ~ClientEndOpen(c) /\ srv_fail = "none"
        /\ Len(srv_rx[c]) > echo_buffer_len
        /\ srv_tx[c] = srv_rx[c]

====
